---- MODULE Spec2Model ----
(***************************************************************************)
(* Model of check_dividends.py (dividend monitor).                         *)
(*                                                                         *)
(* A run of main() loads the snapshot, walks the ticker list, fetches the  *)
(* dividends of each ticker, ingests first-seen tickers, reconciles known  *)
(* ones with check_for_alerts, sends at most one e-mail per ticker,        *)
(* appends at most one record per ticker and saves the snapshot when       *)
(* anything changed.                                                       *)
(*                                                                         *)
(* Amounts are written as decimals in units of 1/10000 (12000 is 1.20).    *)
(* The program holds them as IEEE-754 binary64 values, so the change ratio *)
(* is computed below with binary64 subtraction and division (round to      *)
(* nearest, ties to even) on multi-limb integers.                          *)
(***************************************************************************)
EXTENDS Integers, Sequences, FiniteSets, TLC

VARIABLES
    disk,          \* the snapshot file: ticker -> list of records
    stored_data,   \* main: the loaded mapping, <<>> for a ticker without key
    pc,            \* "idle" (no run), "loop" (main's for loop), or, in the
                   \* specification of check_for_alerts alone, "call"/"returned"
    tix,           \* main: index in the ticker list of the next ticker
    alerts_sent,   \* main: alerts_sent
    data_updated,  \* main: data_updated
    dispatched,    \* history: calls of send_email_alert per (ticker, date)
    last           \* history: what the latest loop iteration (or call) did

vars == <<disk, stored_data, pc, tix, alerts_sent, data_updated,
          dispatched, last>>

\* ------------------------------------------------------------------------
\* Bounds and input sets
\* ------------------------------------------------------------------------

\* dates are 1..MaxDate (day numbers, ordered as the ISO date strings are)
MaxDate == 3

Dates == 1..MaxDate

\* the ticker list returned by load_tickers
Tickers == <<"AAPL", "MSFT">>

TickerSet == {Tickers[k] : k \in 1..Len(Tickers)}

\* decimal amounts, in 1/10000: 0.00, 1.00, 1.1999, 1.20, 1.30
Amounts == {0, 10000, 11999, 12000, 13000}

\* one unit of the decimal scale: amounts are multiples of 1/Scale
Scale == 10000

\* what the data source pays per ticker, repeating over the dates
Payments == [AAPL |-> <<10000, 13000, 10000>>, MSFT |-> <<0, 10000, 12000>>]

\* the dividend of ticker t on date d
Event(t, d) ==
    [date |-> d, amount |-> Payments[t][((d - 1) % Len(Payments[t])) + 1]]

\* ------------------------------------------------------------------------
\* Multi-limb naturals (little endian, NL limbs of LimbBits bits)
\* ------------------------------------------------------------------------

LimbBits == 15

Base == 32768

HalfBase == 16384

NL == 8

Limbs == 1..NL

BigZero == <<0, 0, 0, 0, 0, 0, 0, 0>>

\* n < 2^31
BigFromNat(n) ==
    <<n % Base, (n \div Base) % Base, (n \div Base) \div Base, 0, 0, 0, 0, 0>>

SetMax(S) == CHOOSE x \in S : \A y \in S : y <= x

\* 2^k for k in 0..LimbBits
Pow2(k) ==
    <<1, 2, 4, 8, 16, 32, 64, 128, 256, 512, 1024, 2048, 4096, 8192, 16384, 32768>>[k + 1]

\* bit k (0 based) of x
BigBit(x, k) ==
    IF k < 0 \/ k >= NL * LimbBits THEN 0
    ELSE (x[(k \div LimbBits) + 1] \div Pow2(k % LimbBits)) % 2

\* number of significant bits of x (0 for zero)
BigBitLen(x) ==
    LET nz == {i \in Limbs : x[i] # 0}
    IN  IF nz = {} THEN 0
        ELSE LET top == SetMax(nz)
                 tb  == SetMax({b \in 0..(LimbBits - 1) : (x[top] \div Pow2(b)) % 2 = 1})
             IN  (top - 1) * LimbBits + tb + 1

\* -1, 0, 1 on the limbs 1..n
BigCmpLow(a, b, n) ==
    LET df == {i \in 1..n : a[i] # b[i]}
    IN  IF df = {} THEN 0
        ELSE IF a[SetMax(df)] > b[SetMax(df)] THEN 1 ELSE -1

BigCmp(a, b) == BigCmpLow(a, b, NL)

\* 2x + c, c in {0, 1}
BigDbl(x, c) ==
    LET L(i) == ((2 * x[i]) % Base) +
                (IF i = 1 THEN c ELSE x[i - 1] \div HalfBase)
    IN  <<L(1), L(2), L(3), L(4), L(5), L(6), L(7), L(8)>>

\* a - b for a >= b
BigSub(a, b) ==
    LET L(i) == LET borrow == IF BigCmpLow(a, b, i - 1) < 0 THEN 1 ELSE 0
                IN  (a[i] - b[i] - borrow + Base) % Base
    IN  <<L(1), L(2), L(3), L(4), L(5), L(6), L(7), L(8)>>

\* x + 1
BigInc(x) ==
    LET L(i) == IF \A j \in 1..(i - 1) : x[j] = Base - 1
                THEN (x[i] + 1) % Base
                ELSE x[i]
    IN  <<L(1), L(2), L(3), L(4), L(5), L(6), L(7), L(8)>>

\* x * 2^k
BigShl(x, k) ==
    LET w == k \div LimbBits
        b == k % LimbBits
        L(i) == (IF i - w >= 1 THEN (x[i - w] * Pow2(b)) % Base ELSE 0) +
                (IF i - w >= 2 THEN x[i - w - 1] \div Pow2(LimbBits - b) ELSE 0)
    IN  IF k <= 0 THEN x ELSE <<L(1), L(2), L(3), L(4), L(5), L(6), L(7), L(8)>>

\* the quotient and remainder after the remainder so far became r2
BigDivPut(q, r2, d, k) ==
    IF BigCmp(r2, d) >= 0
    THEN [q |-> BigDbl(q, 1), r |-> BigSub(r2, d), k |-> k]
    ELSE [q |-> BigDbl(q, 0), r |-> r2, k |-> k]

\* one step of restoring division of n * 2^s by d; st holds the quotient
\* and the remainder so far and the next bit st.k to bring down (none
\* when st.k < 0)
BigDiv1(n, s, d, st) ==
    IF st.k < 0 THEN st
    ELSE BigDivPut(st.q, BigDbl(st.r, BigBit(n, st.k - s)), d, st.k - 1)

\* c steps, as long as bits remain
RECURSIVE BigDivN(_, _, _, _, _)
BigDivN(n, s, d, st, c) ==
    IF st.k < 0 THEN st
    ELSE IF c = 1 THEN BigDiv1(n, s, d, st)
    ELSE BigDivN(n, s, d, BigDivN(n, s, d, st, c \div 2), c - (c \div 2))

\* floor(n * 2^s / d) and the remainder, for s >= 0 and
\* n * 2^s below 2^(NL * LimbBits)
BigDivMod(n, s, d) ==
    BigDivN(n, s, d, [q |-> BigZero, r |-> BigZero, k |-> BigBitLen(n) + s - 1],
            NL * LimbBits)

\* ------------------------------------------------------------------------
\* IEEE-754 binary64 values: (-1)^neg * m * 2^e, m of MantBits bits or zero
\* (amounts and ratios stay far from the subnormal and overflow ranges)
\* ------------------------------------------------------------------------

MantBits == 53

FZero == [neg |-> FALSE, m |-> BigZero, e |-> 0]

FIsZero(x) == x.m = BigZero

\* quotient of exactly MantBits bits of n * 2^s / d (s may be negative)
FQuot(n, d, s) ==
    IF s >= 0 THEN [qr |-> BigDivMod(n, s, d), d |-> d]
    ELSE [qr |-> BigDivMod(n, 0, BigShl(d, 0 - s)), d |-> BigShl(d, 0 - s)]

\* m * 2^e once m is rounded: m may have reached 2^MantBits
FPack(neg, q1, e) ==
    IF BigBitLen(q1) > MantBits
    THEN [neg |-> neg, m |-> BigShl(BigFromNat(1), MantBits - 1), e |-> e + 1]
    ELSE [neg |-> neg, m |-> q1, e |-> e]

\* round the quotient t to nearest, ties to even
FRoundQuot(neg, t, e) ==
    IF BigCmp(BigDbl(t.qr.r, 0), t.d) > 0
       \/ (BigCmp(BigDbl(t.qr.r, 0), t.d) = 0 /\ BigBit(t.qr.q, 0) = 1)
    THEN FPack(neg, BigInc(t.qr.q), e)
    ELSE FPack(neg, t.qr.q, e)

\* t0 is the quotient at shift s0, of MantBits or MantBits + 1 bits
FRoundAt(neg, n, d, e, s0, t0) ==
    IF BigBitLen(t0.qr.q) > MantBits
    THEN FRoundQuot(neg, FQuot(n, d, s0 - 1), e - s0 + 1)
    ELSE FRoundQuot(neg, t0, e - s0)

\* the binary64 value nearest to (n / d) * 2^e, ties to even; n, d > 0
FRound(neg, n, d, e) ==
    FRoundAt(neg, n, d, e, MantBits - (BigBitLen(n) - BigBitLen(d)),
             FQuot(n, d, MantBits - (BigBitLen(n) - BigBitLen(d))))

\* float() of the decimal a / Scale
FFromDecimal(a) ==
    IF a = 0 THEN FZero
    ELSE FRound(FALSE, BigFromNat(a), BigFromNat(Scale), 0)

\* x - y for x, y >= 0
FSub(x, y) ==
    IF FIsZero(y) THEN x
    ELSE IF FIsZero(x) THEN [y EXCEPT !.neg = TRUE]
    ELSE LET em == IF x.e < y.e THEN x.e ELSE y.e
             X  == BigShl(x.m, x.e - em)
             Y  == BigShl(y.m, y.e - em)
             c  == BigCmp(X, Y)
         IN  IF c = 0 THEN FZero
             ELSE IF c > 0 THEN FRound(FALSE, BigSub(X, Y), BigFromNat(1), em)
             ELSE FRound(TRUE, BigSub(Y, X), BigFromNat(1), em)

\* x / y for y # 0
FDiv(x, y) ==
    IF FIsZero(x) THEN FZero
    ELSE FRound(x.neg # y.neg, x.m, y.m, x.e - y.e)

\* abs(x) >= t for t > 0
FAbsGeq(x, t) ==
    IF FIsZero(x) THEN FALSE
    ELSE IF x.e # t.e THEN x.e > t.e
    ELSE BigCmp(x.m, t.m) >= 0

\* ------------------------------------------------------------------------
\* check_for_alerts
\* ------------------------------------------------------------------------

\* ALERT_THRESHOLD = 0.20, in 1/Scale
ALERT_THRESHOLD == 2000

\* abs((latest_amount - previous_amount) / previous_amount) >= ALERT_THRESHOLD
\* as the binary64 arithmetic of the program decides it, previous_amount # 0
ChangeAlerts ==
    [p \in Amounts \ {0}, a \in Amounts |->
        FAbsGeq(FDiv(FSub(FFromDecimal(a), FFromDecimal(p)), FFromDecimal(p)),
                FFromDecimal(ALERT_THRESHOLD))]

\* stored_dates
StoredDates(stored) == {stored[k].date : k \in 1..Len(stored)}

\* variant of truly_new_dividends without the date filter
TrulyNewUnfiltered(stored, new) == new

\* truly_new_dividends
TrulyNew(stored, new) ==
    SelectSeq(new, LAMBDA e : e.date \notin StoredDates(stored))

\* what check_for_alerts returns: should_alert and new_dividend_to_add
\* (<<>> for None), with the previous dividend it compared against (<<>> when
\* it compared nothing); raised when it ends in an exception instead
Returned(alert, prev, added) ==
    [raised |-> FALSE, should_alert |-> alert, previous |-> prev,
     new_dividend |-> added]

Raised(prev, added) ==
    [raised |-> TRUE, should_alert |-> FALSE, previous |-> prev,
     new_dividend |-> added]

\* variant of the zero test that never holds
IsZeroAmountNever(amount) == FALSE

\* previous_amount == 0
IsZeroAmount(amount) == amount = 0

\* the division and the threshold test; the division raises
\* ZeroDivisionError on a zero previous_amount
ChangeDecision(previous, latest_new) ==
    IF previous.amount = 0
    THEN Raised(<<previous>>, <<latest_new>>)
    ELSE Returned(ChangeAlerts[previous.amount, latest_new.amount],
                  <<previous>>, <<latest_new>>)

\* from "Calculate percentage change" on
CompareAmounts(previous, latest_new) ==
    IF IsZeroAmount(previous.amount)
    THEN Returned(FALSE, <<previous>>, <<latest_new>>)
    ELSE ChangeDecision(previous, latest_new)

\* the newest of the truly new dividends
LatestNew(stored, new) == TrulyNew(stored, new)[Len(TrulyNew(stored, new))]

CheckForAlerts(stored, new) ==
    IF new = <<>> THEN Returned(FALSE, <<>>, <<>>)
    ELSE IF TrulyNew(stored, new) = <<>> THEN Returned(FALSE, <<>>, <<>>)
    ELSE IF Len(stored) > 0
         THEN CompareAmounts(stored[Len(stored)], LatestNew(stored, new))
    ELSE IF Len(new) >= 2
         THEN CompareAmounts(new[Len(new) - 1], LatestNew(stored, new))
    ELSE Returned(FALSE, <<>>, <<LatestNew(stored, new)>>)

\* ------------------------------------------------------------------------
\* fetch_dividends
\* ------------------------------------------------------------------------

\* the k-th smallest element of a set of dates
KthDate(S, k) == CHOOSE d \in S : Cardinality({c \in S : c < d}) = k - 1

\* the dividends of ticker t on the dates S, oldest first
DividendList(t, S) == [k \in 1..Cardinality(S) |-> Event(t, KthDate(S, k))]

\* what fetch_dividends can return when it does not return None: the rows
\* of a non-empty frame, in ascending date order without repeated dates
FetchResults(t) == {DividendList(t, S) : S \in (SUBSET Dates) \ {{}}}

\* ------------------------------------------------------------------------
\* main
\* ------------------------------------------------------------------------

NoHistory == [t \in TickerSet |-> <<>>]

NoLast ==
    [kind |-> "none", ticker |-> "", before |-> <<>>, fetched |-> <<>>,
     should_alert |-> FALSE, delivered |-> FALSE, previous |-> <<>>,
     new_dividend |-> <<>>]

\* no snapshot file, no run in progress
Init ==
    /\ disk = NoHistory
    /\ stored_data = NoHistory
    /\ pc = "idle"
    /\ tix = 1
    /\ alerts_sent = 0
    /\ data_updated = FALSE
    /\ dispatched = [t \in TickerSet, d \in Dates |-> 0]
    /\ last = NoLast

\* main up to the loop: load_tickers, load_stored_data, the two counters
Load ==
    /\ pc = "idle"
    /\ pc' = "loop"
    /\ stored_data' = disk
    /\ tix' = 1
    /\ alerts_sent' = 0
    /\ data_updated' = FALSE
    /\ last' = NoLast
    /\ UNCHANGED <<disk, dispatched>>

\* the loop is at ticker t
InLoop(t) == pc = "loop" /\ tix <= Len(Tickers) /\ Tickers[tix] = t

\* variant of the new-stock test in which no ticker is new
IsNewStockNever(stored) == FALSE

\* "if not stored_dividends"
IsNewStock(stored) == stored = <<>>

\* variant in which a fetch that returns None ends the run
SkipTickerEndsRun(t) ==
    /\ InLoop(t)
    /\ pc' = "idle"
    /\ last' = [NoLast EXCEPT !.kind = "skipped", !.ticker = t,
                              !.before = stored_data[t]]
    /\ UNCHANGED <<disk, stored_data, tix, alerts_sent, data_updated,
                   dispatched>>

\* an iteration whose fetch returns None
SkipTicker(t) ==
    /\ InLoop(t)
    /\ tix' = tix + 1
    /\ last' = [NoLast EXCEPT !.kind = "skipped", !.ticker = t,
                              !.before = stored_data[t]]
    /\ UNCHANGED <<disk, stored_data, pc, alerts_sent, data_updated,
                   dispatched>>

\* variant that writes the file as soon as a new stock is stored
NewStockSavesAtOnce(t, fetched) ==
    /\ InLoop(t)
    /\ IsNewStock(stored_data[t])
    /\ stored_data' = [stored_data EXCEPT ![t] = fetched]
    /\ disk' = stored_data'
    /\ data_updated' = TRUE
    /\ tix' = tix + 1
    /\ last' = [NoLast EXCEPT !.kind = "baseline", !.ticker = t,
                              !.fetched = fetched]
    /\ UNCHANGED <<pc, alerts_sent, dispatched>>

\* an iteration for a ticker without stored dividends
NewStock(t, fetched) ==
    /\ InLoop(t)
    /\ IsNewStock(stored_data[t])
    /\ stored_data' = [stored_data EXCEPT ![t] = fetched]
    /\ data_updated' = TRUE
    /\ tix' = tix + 1
    /\ last' = [NoLast EXCEPT !.kind = "baseline", !.ticker = t,
                              !.fetched = fetched]
    /\ UNCHANGED <<disk, pc, alerts_sent, dispatched>>

\* variant of the append that puts the new dividend in front
AppendedInFront(stored, r) ==
    IF r.new_dividend # <<>> THEN r.new_dividend \o stored ELSE stored

\* variant that does not append a dividend it alerted on
AppendedUnlessAlert(stored, r) ==
    IF r.new_dividend # <<>> /\ ~r.should_alert
    THEN Append(stored, r.new_dividend[1]) ELSE stored

\* "if new_dividend: stored_data[ticker].append(new_dividend)"
Appended(stored, r) ==
    IF r.new_dividend # <<>> THEN Append(stored, r.new_dividend[1]) ELSE stored

\* variant in which an e-mail that could not be sent ends the iteration
\* before the append
ReconciledUnlessUndelivered(t, fetched, r, delivered) ==
    /\ stored_data' =
          IF r.should_alert /\ ~delivered THEN stored_data
          ELSE [stored_data EXCEPT ![t] = Appended(stored_data[t], r)]
    /\ data_updated' =
          IF r.should_alert /\ ~delivered THEN data_updated
          ELSE (data_updated \/ r.new_dividend # <<>>)
    /\ alerts_sent' =
          IF r.should_alert /\ delivered THEN alerts_sent + 1 ELSE alerts_sent
    /\ dispatched' =
          IF r.should_alert
          THEN [dispatched EXCEPT ![t, r.new_dividend[1].date] = @ + 1]
          ELSE dispatched
    /\ tix' = tix + 1
    /\ pc' = pc
    /\ last' = [kind |-> "reconciled", ticker |-> t,
                before |-> stored_data[t], fetched |-> fetched,
                should_alert |-> r.should_alert,
                delivered |-> (r.should_alert /\ delivered),
                previous |-> r.previous, new_dividend |-> r.new_dividend]

\* an iteration for a ticker with stored dividends, where check_for_alerts
\* returned r and send_email_alert, if called, returned delivered
Reconciled(t, fetched, r, delivered) ==
    /\ stored_data' = [stored_data EXCEPT ![t] = Appended(stored_data[t], r)]
    /\ data_updated' = (data_updated \/ r.new_dividend # <<>>)
    /\ alerts_sent' =
          IF r.should_alert /\ delivered THEN alerts_sent + 1 ELSE alerts_sent
    /\ dispatched' =
          IF r.should_alert
          THEN [dispatched EXCEPT ![t, r.new_dividend[1].date] = @ + 1]
          ELSE dispatched
    /\ tix' = tix + 1
    /\ pc' = pc
    /\ last' = [kind |-> "reconciled", ticker |-> t,
                before |-> stored_data[t], fetched |-> fetched,
                should_alert |-> r.should_alert,
                delivered |-> (r.should_alert /\ delivered),
                previous |-> r.previous, new_dividend |-> r.new_dividend]

\* an iteration in which check_for_alerts raised: main ends there
Aborted(t, fetched) ==
    /\ pc' = "idle"
    /\ last' = [NoLast EXCEPT !.kind = "raised", !.ticker = t,
                              !.before = stored_data[t],
                              !.fetched = fetched]
    /\ UNCHANGED <<stored_data, tix, alerts_sent, data_updated, dispatched>>

ExistingStock(t, fetched, delivered) ==
    /\ InLoop(t)
    /\ ~IsNewStock(stored_data[t])
    \* send_email_alert is called, and can return True, only on should_alert
    /\ delivered => CheckForAlerts(stored_data[t], fetched).should_alert
    /\ IF CheckForAlerts(stored_data[t], fetched).raised
       THEN Aborted(t, fetched)
       ELSE Reconciled(t, fetched, CheckForAlerts(stored_data[t], fetched),
                       delivered)
    /\ UNCHANGED disk

\* after the loop, data_updated: save_stored_data, then the summary
SaveAndFinish ==
    /\ pc = "loop"
    /\ tix > Len(Tickers)
    /\ data_updated
    /\ disk' = stored_data
    /\ pc' = "idle"
    /\ last' = NoLast
    /\ UNCHANGED <<stored_data, tix, alerts_sent, data_updated, dispatched>>

\* after the loop, nothing changed: the summary only
FinishUnchanged ==
    /\ pc = "loop"
    /\ tix > Len(Tickers)
    /\ ~data_updated
    /\ pc' = "idle"
    /\ last' = NoLast
    /\ UNCHANGED <<disk, stored_data, tix, alerts_sent, data_updated,
                   dispatched>>

Next ==
    \/ Load
    \/ \E t \in TickerSet : SkipTicker(t)
    \/ \E t \in TickerSet : \E fetched \in FetchResults(t) : NewStock(t, fetched)
    \/ \E t \in TickerSet : \E fetched \in FetchResults(t), delivered \in BOOLEAN :
          ExistingStock(t, fetched, delivered)
    \/ SaveAndFinish
    \/ FinishUnchanged

Spec == Init /\ [][Next]_vars

\* what fetch_dividends returns from a source that only ever adds
\* dividends at the end: the full history up to some date
HistoryResults(t) == {DividendList(t, 1..k) : k \in Dates}

\* runs against such a source
NextHistory ==
    \/ Load
    \/ \E t \in TickerSet : SkipTicker(t)
    \/ \E t \in TickerSet : \E fetched \in HistoryResults(t) : NewStock(t, fetched)
    \/ \E t \in TickerSet : \E fetched \in HistoryResults(t), delivered \in BOOLEAN :
          ExistingStock(t, fetched, delivered)
    \/ SaveAndFinish
    \/ FinishUnchanged

\* a step of a run that has loaded its snapshot
RunStep == pc = "loop" /\ NextHistory

\* main is sequential code: a run that has started goes on to its next
\* step; whether another run is started is left open
SpecLive == Init /\ [][NextHistory]_vars /\ WF_vars(RunStep)

\* ------------------------------------------------------------------------
\* Runs against a source that does not change: every fetch of ticker t
\* returns the same list, every save succeeds, the scheduler keeps starting
\* runs
\* ------------------------------------------------------------------------

\* what fetch_dividends returns for ticker t in every run
FixedSource(t) == DividendList(t, Dates)

\* the histories a snapshot can hold for ticker t when the first run starts
StartHistories(t) ==
    {<<>>} \cup {DividendList(t, S) : S \in (SUBSET Dates) \ {{}}}

\* a snapshot written by earlier runs, no run in progress
InitFixed ==
    /\ disk \in {h \in [TickerSet -> UNION {StartHistories(t) : t \in TickerSet}] :
                    \A t \in TickerSet : h[t] \in StartHistories(t)}
    /\ stored_data = NoHistory
    /\ pc = "idle"
    /\ tix = 1
    /\ alerts_sent = 0
    /\ data_updated = FALSE
    /\ dispatched = [t \in TickerSet, d \in Dates |-> 0]
    /\ last = NoLast

NextFixed ==
    \/ Load
    \/ \E t \in TickerSet : NewStock(t, FixedSource(t))
    \/ \E t \in TickerSet : \E delivered \in BOOLEAN :
          ExistingStock(t, FixedSource(t), delivered)
    \/ SaveAndFinish
    \/ FinishUnchanged

\* the workflow is started on a schedule and a started run goes on to its end
SpecFixed == InitFixed /\ [][NextFixed]_vars /\ WF_vars(NextFixed)

\* ------------------------------------------------------------------------
\* Runs with faults: a snapshot that cannot be read, a save that raises, a
\* process that is killed during the save
\* ------------------------------------------------------------------------

\* a save may fail only while no alert was sent MaxDispatched times
MaxDispatched == 2

\* a snapshot file that json.load cannot parse (empty or cut off)
Corrupt == [t \in TickerSet |-> <<[date |-> 0, amount |-> 0]>>]

\* variant in which json.load accepts every file
UnreadableNever(snapshot) == FALSE

\* json.load(f) raises
Unreadable(snapshot) == snapshot = Corrupt

\* main with a snapshot that loads
LoadReadable ==
    /\ ~Unreadable(disk)
    /\ Load

\* main with a snapshot that does not load: the exception ends the run
LoadUnreadable ==
    /\ pc = "idle"
    /\ Unreadable(disk)
    /\ last' = [NoLast EXCEPT !.kind = "load_failed"]
    /\ UNCHANGED <<disk, stored_data, pc, tix, alerts_sent, data_updated,
                   dispatched>>

\* a further failed save is still possible
MayFail == \A t \in TickerSet, d \in Dates : dispatched[t, d] < MaxDispatched

\* variant in which the exception comes after the file was written
SaveFailedAfterWrite ==
    /\ pc = "loop"
    /\ tix > Len(Tickers)
    /\ data_updated
    /\ MayFail
    /\ disk' = stored_data
    /\ pc' = "idle"
    /\ last' = [NoLast EXCEPT !.kind = "save_failed"]
    /\ UNCHANGED <<stored_data, tix, alerts_sent, data_updated, dispatched>>

\* save_stored_data raises before it has opened the file for writing: the
\* exception ends the run, the file is as it was
SaveFailed ==
    /\ pc = "loop"
    /\ tix > Len(Tickers)
    /\ data_updated
    /\ MayFail
    /\ pc' = "idle"
    /\ last' = [NoLast EXCEPT !.kind = "save_failed"]
    /\ UNCHANGED <<disk, stored_data, tix, alerts_sent, data_updated,
                   dispatched>>

\* what the file can hold when the process is killed in save_stored_data:
\* the old content (before open), an empty or cut off text (open(.., 'w')
\* has truncated the file, json.dump has not finished), or the new content
CrashOutcomes == {disk, Corrupt, stored_data}

\* the process is killed during save_stored_data
SaveCrashed ==
    /\ pc = "loop"
    /\ tix > Len(Tickers)
    /\ data_updated
    /\ MayFail
    /\ \E snapshot \in CrashOutcomes : disk' = snapshot
    /\ pc' = "idle"
    /\ last' = [NoLast EXCEPT !.kind = "crashed"]
    /\ UNCHANGED <<stored_data, tix, alerts_sent, data_updated, dispatched>>

NextFaults ==
    \/ LoadReadable
    \/ LoadUnreadable
    \/ \E t \in TickerSet : SkipTicker(t)
    \/ \E t \in TickerSet : \E fetched \in HistoryResults(t) : NewStock(t, fetched)
    \/ \E t \in TickerSet : \E fetched \in HistoryResults(t), delivered \in BOOLEAN :
          ExistingStock(t, fetched, delivered)
    \/ SaveAndFinish
    \/ FinishUnchanged
    \/ SaveFailed
    \/ SaveCrashed

SpecFaults == Init /\ [][NextFaults]_vars

\* ------------------------------------------------------------------------
\* check_for_alerts on its own: any stored list and any fetched list, both
\* in ascending date order, with any amounts
\* ------------------------------------------------------------------------

\* the dividends on the dates S with the amounts am, oldest first
AnyList(S, am) ==
    [k \in 1..Cardinality(S) |->
        [date |-> KthDate(S, k), amount |-> am[KthDate(S, k)]]]

AnyLists ==
    UNION {{AnyList(S, am) : am \in [S -> Amounts]} : S \in SUBSET Dates}

InitCheck ==
    /\ disk = NoHistory
    /\ stored_data = NoHistory
    /\ pc = "call"
    /\ tix = 1
    /\ alerts_sent = 0
    /\ data_updated = FALSE
    /\ dispatched = [t \in TickerSet, d \in Dates |-> 0]
    /\ \E stored \in AnyLists, new \in AnyLists :
          last = [NoLast EXCEPT !.kind = "args", !.before = stored,
                                !.fetched = new]

\* the call check_for_alerts(ticker, last.before, last.fetched)
CallCheckForAlerts ==
    /\ pc = "call"
    /\ pc' = "returned"
    /\ last' = [kind |-> IF CheckForAlerts(last.before, last.fetched).raised
                         THEN "raised" ELSE "returned",
                ticker |-> "",
                before |-> last.before,
                fetched |-> last.fetched,
                should_alert |-> CheckForAlerts(last.before, last.fetched).should_alert,
                delivered |-> FALSE,
                previous |-> CheckForAlerts(last.before, last.fetched).previous,
                new_dividend |-> CheckForAlerts(last.before, last.fetched).new_dividend]
    /\ UNCHANGED <<disk, stored_data, tix, alerts_sent, data_updated, dispatched>>

NextCheck == CallCheckForAlerts

SpecCheck == InitCheck /\ [][NextCheck]_vars

\* ------------------------------------------------------------------------
\* Properties
\* ------------------------------------------------------------------------

Range(seq) == {seq[k] : k \in 1..Len(seq)}

IsPrefix(old, new) == Len(old) <= Len(new) /\ SubSeq(new, 1, Len(old)) = old

SortedByDate(seq) ==
    \A j, k \in 1..Len(seq) : j < k => seq[j].date < seq[k].date

\* |new - prev| / prev >= ALERT_THRESHOLD over the rationals, prev # 0
ExactChange(prev, new) ==
    (IF new >= prev THEN new - prev ELSE prev - new) * Scale
        >= ALERT_THRESHOLD * prev

\* the events that can be the baseline of the new event e: the stored ones
\* and the new ones of the same run, with a smaller date
Predecessors(before, fetched, e) ==
    {c \in Range(before) \cup Range(TrulyNew(before, fetched)) : c.date < e.date}

\* b is the latest of the events in pool
IsLatestOf(b, pool) == b \in pool /\ \A c \in pool : c.date <= b.date

\* an iteration of main for a ticker with stored dividends has just ended
JustReconciled == pc = "loop" /\ last.kind = "reconciled"

\* C1: no alert is dispatched for a dividend whose date is already in the
\* ticker's stored history, and over all runs at most one alert is
\* dispatched for each (ticker, date).
C1_NoRealert ==
    /\ \A t \in TickerSet, d \in Dates : dispatched[t, d] <= 1
    /\ (JustReconciled /\ last.should_alert) =>
          /\ last.new_dividend # <<>>
          /\ last.new_dividend[1].date \notin StoredDates(last.before)

\* a dividend that was alerted in an earlier run is fetched again and the
\* ticker is reconciled without a second alert for it
C1_Witness ==
    /\ JustReconciled
    /\ \E d \in StoredDates(last.before) \cap StoredDates(last.fetched) :
          /\ dispatched[last.ticker, d] = 1
          /\ d \in StoredDates(disk[last.ticker])

\* C2: stored history is append-only: every step leaves each record of a
\* ticker's history, on disk and in memory, at its position with its date
\* and amount; a load reads exactly what the last save wrote, and a
\* non-empty history is never replaced.
C2_AppendOnly ==
    [][\A t \in TickerSet :
          /\ IsPrefix(disk[t], disk'[t])
          /\ (pc = "loop" /\ pc' = "loop") =>
                IsPrefix(stored_data[t], stored_data'[t])
          /\ (pc = "idle" /\ pc' = "loop") => stored_data'[t] = disk[t]
          /\ pc' = "loop" => IsPrefix(disk'[t], stored_data'[t])]_vars

\* a history saved by an earlier run has grown by a dividend appended in a
\* later run, and that run has saved it
C2_Witness ==
    /\ pc = "idle"
    /\ \E t \in TickerSet :
          /\ Len(disk[t]) >= 3
          /\ dispatched[t, disk[t][Len(disk[t])].date] = 1

\* C3: an iteration for a ticker without stored history whose fetch
\* succeeds makes the fetched list the ticker's history and dispatches no
\* alert, whatever the fetched amounts are.
C3_BaselineNoAlert ==
    [][\A t \in TickerSet :
          (InLoop(t) /\ stored_data[t] = <<>> /\ last'.kind # "skipped"
             /\ tix' = tix + 1) =>
             /\ last'.fetched \in FetchResults(t)
             /\ stored_data'[t] = last'.fetched
             /\ dispatched' = dispatched
             /\ alerts_sent' = alerts_sent
             /\ ~last'.should_alert]_vars

\* a first-seen ticker was ingested with two dividends in a row that differ
\* by more than the threshold, and nothing was dispatched for it
C3_Witness ==
    /\ pc = "loop"
    /\ last.kind = "baseline"
    /\ \E k \in 1..(Len(last.fetched) - 1) :
          /\ last.fetched[k].amount # 0
          /\ ExactChange(last.fetched[k].amount, last.fetched[k + 1].amount)
    /\ stored_data[last.ticker] = last.fetched
    /\ \A d \in Dates : dispatched[last.ticker, d] = 0

\* C4: idempotence: once an iteration has stored what it found for a ticker,
\* reconciling the same fetched list again finds no new dividend, raises
\* no alert and appends nothing.
C4_Idempotent ==
    (pc = "loop" /\ last.kind \in {"baseline", "reconciled"}) =>
       /\ TrulyNew(stored_data[last.ticker], last.fetched) = <<>>
       /\ ~CheckForAlerts(stored_data[last.ticker], last.fetched).should_alert
       /\ CheckForAlerts(stored_data[last.ticker], last.fetched).new_dividend = <<>>

\* C5: with stored history, the dividend a new dividend is compared against
\* is the latest one with a smaller date among the stored dividends and the
\* new dividends of the same run.
C5_ProgressiveBaseline ==
    (JustReconciled /\ last.new_dividend # <<>>
       /\ Predecessors(last.before, last.fetched, last.new_dividend[1]) # {}) =>
       /\ last.previous # <<>>
       /\ IsLatestOf(last.previous[1],
                     Predecessors(last.before, last.fetched, last.new_dividend[1]))

\* C6: with stored history, every fetched dividend whose date is not stored
\* and whose change against its baseline reaches the threshold has an alert
\* dispatched in the same iteration.
C6_DecisionPerNewEvent ==
    JustReconciled =>
       \A e \in Range(TrulyNew(last.before, last.fetched)) :
          \A b \in Predecessors(last.before, last.fetched, e) :
             (/\ IsLatestOf(b, Predecessors(last.before, last.fetched, e))
              /\ b.amount # 0
              /\ ExactChange(b.amount, e.amount)) =>
                (last.should_alert /\ last.new_dividend = <<e>>)

\* C7: after an iteration for a ticker with stored history, the history
\* holds every fetched dividend whose date was not stored, and its length
\* is the old length plus the number of new dividends.
C7_AllNewAppended ==
    JustReconciled =>
       /\ Len(stored_data[last.ticker]) =
             Len(last.before) + Len(TrulyNew(last.before, last.fetched))
       /\ Range(TrulyNew(last.before, last.fetched))
             \subseteq Range(stored_data[last.ticker])

\* C8: every ticker's history, in memory and on disk, is in strictly
\* ascending date order (sorted, no date twice).
C8_SortedNoDuplicates ==
    \A t \in TickerSet : SortedByDate(stored_data[t]) /\ SortedByDate(disk[t])

\* C9: with a non-zero previous amount, should_alert is true exactly when
\* |new - previous| / previous >= 0.20, a change of exactly 20% included.
C9_ThresholdExact ==
    (pc = "returned" /\ last.kind = "returned" /\ last.previous # <<>>
       /\ last.previous[1].amount # 0) =>
       (last.should_alert <=>
           ExactChange(last.previous[1].amount, last.new_dividend[1].amount))

\* C10: when the previous amount is zero, check_for_alerts raises nothing,
\* returns should_alert false, and still returns the new dividend.
C10_ZeroBaseline ==
    (pc = "returned" /\ last.previous # <<>> /\ last.previous[1].amount = 0) =>
       /\ last.kind = "returned"
       /\ ~last.should_alert
       /\ last.new_dividend # <<>>
       /\ last.new_dividend[1] \in Range(last.fetched)
       /\ last.new_dividend[1].date \notin StoredDates(last.before)
       /\ \A c \in Range(last.fetched) :
             c.date \notin StoredDates(last.before) =>
                c.date <= last.new_dividend[1].date

\* a zero stored amount was followed by a new non-zero amount
C10_Witness ==
    /\ pc = "returned"
    /\ last.kind = "returned"
    /\ last.before # <<>>
    /\ last.previous = <<last.before[Len(last.before)]>>
    /\ last.previous[1].amount = 0
    /\ last.new_dividend # <<>>
    /\ last.new_dividend[1].amount = 13000
    /\ ~last.should_alert

\* C11: a fetch failure is local to its ticker: the iteration changes no
\* history, dispatches nothing and keeps what the run did for the tickers
\* before it; the loop goes on with the next ticker, and the save at the
\* end of the run writes the histories of all tickers.
C11_SkipIsLocal ==
    [][/\ (pc = "loop" /\ last'.kind = "skipped") =>
             /\ stored_data' = stored_data
             /\ dispatched' = dispatched
             /\ alerts_sent' = alerts_sent
             /\ data_updated' = data_updated
             /\ disk' = disk
             /\ pc' = "loop"
             /\ tix' = tix + 1
       /\ (pc = "loop" /\ last.kind = "skipped" /\ tix <= Len(Tickers)) =>
             /\ pc' = "loop"
             /\ tix' = tix + 1
             /\ last'.ticker = Tickers[tix]
       /\ (pc = "loop" /\ pc' = "idle" /\ data_updated) =>
             disk' = stored_data]_vars

\* the second ticker was skipped in a run that had alerted on the first
\* one and appended its new dividend, and both are still in place
C11_Witness ==
    /\ pc = "loop"
    /\ last.kind = "skipped"
    /\ last.ticker = Tickers[2]
    /\ stored_data[Tickers[2]] = disk[Tickers[2]]
    /\ stored_data[Tickers[2]] # <<>>
    /\ alerts_sent = 1
    /\ data_updated
    /\ Len(stored_data[Tickers[1]]) = Len(disk[Tickers[1]]) + 1
    /\ dispatched[Tickers[1],
                  stored_data[Tickers[1]][Len(stored_data[Tickers[1]])].date] = 1

\* C12: the file is written only by the step that ends a run, after the
\* last ticker (so at most once per run and never between two tickers), and
\* that step writes the in-memory histories exactly when one of them grew
\* during the run, which is what data_updated records.
C12_SaveOnceAtEnd ==
    [][/\ disk' # disk =>
             /\ pc = "loop" /\ pc' = "idle"
             /\ tix > Len(Tickers)
             /\ disk' = stored_data
       /\ (pc = "loop" /\ pc' = "idle") =>
             /\ tix > Len(Tickers)
             /\ stored_data # disk => disk' = stored_data
             /\ stored_data = disk => (disk' = disk /\ ~data_updated)
       /\ pc' = "loop" => (data_updated' <=> stored_data' # disk')]_vars

\* a run in which both tickers' histories grew has ended with its one save
C12_Witness ==
    /\ pc = "idle"
    /\ data_updated
    /\ disk = stored_data
    /\ \A t \in TickerSet : Len(disk[t]) >= 2
    /\ \E t \in TickerSet : \E d \in Dates : dispatched[t, d] = 1

\* C13: the save is atomic under a crash: whatever step changes the file,
\* the file then holds the complete new state; otherwise it holds the
\* complete old state, never an empty or cut off text.
C13_AtomicSave ==
    [][disk' = disk \/ disk' = stored_data]_vars

\* C14: an e-mail that could not be sent is not counted, the new dividend
\* is appended and the run marked updated all the same, and the loop goes
\* on; within a run alerts_sent grows by one exactly in the iterations whose
\* e-mail was sent.
C14_DispatchFailureIsLocal ==
    [][(pc = "loop" /\ pc' = "loop") =>
          /\ alerts_sent' = alerts_sent +
                (IF last'.kind = "reconciled" /\ last'.delivered THEN 1 ELSE 0)
          /\ (last'.kind = "reconciled" /\ last'.should_alert /\ ~last'.delivered) =>
                /\ stored_data'[last'.ticker] =
                      Append(stored_data[last'.ticker], last'.new_dividend[1])
                /\ data_updated'
                /\ dispatched'[last'.ticker, last'.new_dividend[1].date] =
                      dispatched[last'.ticker, last'.new_dividend[1].date] + 1
                /\ tix' = tix + 1]_vars

\* the e-mail for the first ticker was not sent, its new dividend is stored,
\* and the second ticker was then reconciled and its e-mail sent
C14_Witness ==
    /\ JustReconciled
    /\ last.ticker = Tickers[2]
    /\ last.delivered
    /\ alerts_sent = 1
    /\ data_updated
    /\ Len(stored_data[Tickers[1]]) = Len(disk[Tickers[1]]) + 1
    /\ Len(disk[Tickers[1]]) >= 1
    /\ stored_data[Tickers[1]][Len(stored_data[Tickers[1]])].date
          \notin StoredDates(disk[Tickers[1]])
    /\ dispatched[Tickers[1],
                  stored_data[Tickers[1]][Len(stored_data[Tickers[1]])].date] = 1

\* C15: with a snapshot that cannot be parsed the run ends at the load: no
\* ticker is fetched or stored as new, nothing is dispatched, nothing is
\* saved and the file stays as it is; with no snapshot at all the run
\* starts from the empty mapping.
C15_CorruptSnapshotAborts ==
    [][/\ (pc = "idle" /\ disk = Corrupt) =>
             /\ pc' = "idle"
             /\ last'.kind = "load_failed"
             /\ disk' = disk
             /\ stored_data' = stored_data
             /\ dispatched' = dispatched
             /\ alerts_sent' = alerts_sent
       /\ pc' = "loop" => disk' # Corrupt
       /\ (pc = "idle" /\ disk = NoHistory) =>
             (pc' = "loop" /\ stored_data' = NoHistory /\ tix' = 1)]_vars

\* a run has ended at the load of a cut off snapshot, after earlier runs
\* had stored dividends and sent an alert
C15_Witness ==
    /\ pc = "idle"
    /\ disk = Corrupt
    /\ last.kind = "load_failed"
    /\ \E t \in TickerSet : \E d \in Dates : dispatched[t, d] >= 1

\* the run has printed its summary
Completed == pc = "idle" /\ last.kind = "none"

\* C16: once the snapshot is loaded the run reaches its summary, whatever
\* fetches return None and whatever e-mails fail; the loop is left only
\* after the last ticker, and only by completing.
C16_RunCompletes ==
    /\ (pc = "loop") ~> Completed
    /\ [][(pc = "loop" /\ pc' = "idle") =>
             (tix > Len(Tickers) /\ last'.kind = "none")]_vars

\* a run is at the end of its loop after an e-mail for the first ticker
\* failed and the fetch for the second ticker failed
C16_Witness ==
    /\ pc = "loop"
    /\ tix > Len(Tickers)
    /\ last.kind = "skipped"
    /\ alerts_sent = 0
    /\ Len(stored_data[Tickers[1]]) = Len(disk[Tickers[1]]) + 1
    /\ Len(disk[Tickers[1]]) >= 1
    /\ dispatched[Tickers[1],
                  stored_data[Tickers[1]][Len(stored_data[Tickers[1]])].date] = 1

\* C17: check_for_alerts called with an empty stored list never returns
\* should_alert true, whatever the fetched list is.
C17_NoAlertOnEmptyHistory ==
    (pc = "returned" /\ last.before = <<>>) => ~last.should_alert

\* the fetched lists whose newest dividend not in stored is e
FetchedWithLatest(t, stored, e) ==
    {f \in HistoryResults(t) :
        TrulyNew(stored, f) # <<>> /\ LatestNew(stored, f) = e}

\* ticker t had an alert dispatched in the run that has just ended without
\* its save: the dividend at the end of its in-memory history is not in the
\* file, and reconciling the file's history with the same fetched data
\* returns that dividend with should_alert again
AlertedAndLost(t) ==
    /\ disk[t] # <<>>
    /\ Len(stored_data[t]) = Len(disk[t]) + 1
    /\ SubSeq(stored_data[t], 1, Len(disk[t])) = disk[t]
    /\ dispatched[t, stored_data[t][Len(stored_data[t])].date] >= 1
    /\ stored_data[t][Len(stored_data[t])].date \notin StoredDates(disk[t])
    /\ FetchedWithLatest(t, disk[t], stored_data[t][Len(stored_data[t])]) # {}
    /\ \A f \in FetchedWithLatest(t, disk[t], stored_data[t][Len(stored_data[t])]) :
          /\ CheckForAlerts(disk[t], f).should_alert
          /\ CheckForAlerts(disk[t], f).new_dividend =
                <<stored_data[t][Len(stored_data[t])]>>

\* C18: when a run has sent an alert and its save fails with the old file
\* left in place, the alert stays sent and its dividend is not in the
\* file, so the next run on the same fetched data finds the same dividend
\* new and raises the same alert again.
C18_ReAlertAfterFailedSave ==
    (pc = "idle" /\ last.kind = "save_failed" /\ alerts_sent >= 1) =>
       \E t \in TickerSet : AlertedAndLost(t)

\* the same dividend has just been alerted on for the second time
C18_Witness ==
    /\ JustReconciled
    /\ last.should_alert
    /\ dispatched[last.ticker, last.new_dividend[1].date] = 2
    /\ last.new_dividend[1].date \notin StoredDates(disk[last.ticker])

\* every date the source returns is in the file's history of its ticker
AllFetchedStored ==
    \A t \in TickerSet : \A i \in 1..Len(FixedSource(t)) :
        FixedSource(t)[i].date \in StoredDates(disk[t])

\* C19: with an unchanged source, fetches and saves that succeed, the runs
\* reach, after finitely many of them, a file that holds every fetched
\* date; from then on no step appends a dividend, dispatches an alert,
\* marks the run updated or writes the file.
C19_Converges ==
    /\ <>[]AllFetchedStored
    /\ [][AllFetchedStored =>
             /\ disk' = disk
             /\ dispatched' = dispatched
             /\ alerts_sent' = 0
             /\ ~data_updated'
             /\ stored_data' = disk]_vars

\* a run at the fixed point has gone through every ticker and changed
\* nothing, after earlier runs appended and alerted on the way there
C19_Witness ==
    /\ AllFetchedStored
    /\ pc = "loop"
    /\ tix > Len(Tickers)
    /\ ~data_updated
    /\ \E t \in TickerSet, d \in Dates : dispatched[t, d] >= 1

\* C20: no alert is dispatched without its dividend being recorded: the
\* step that dispatches for (t, d) appends that dividend to the in-memory
\* history of t and marks the run updated; until the run ends the in-memory
\* histories only grow and the mark stays; the run then ends by writing
\* the in-memory histories to the file.
C20_AlertIsRecorded ==
    [][/\ \A t \in TickerSet, d \in Dates :
             dispatched'[t, d] > dispatched[t, d] =>
                /\ stored_data'[t] = Append(stored_data[t], Event(t, d))
                /\ data_updated'
       /\ (pc = "loop" /\ pc' = "loop") =>
             /\ \A t \in TickerSet : IsPrefix(stored_data[t], stored_data'[t])
             /\ data_updated => data_updated'
       /\ (pc = "loop" /\ pc' = "idle" /\ data_updated) =>
             disk' = stored_data]_vars

\* a run that sent an alert has ended and the file holds the alerted dividend
C20_Witness ==
    /\ pc = "idle"
    /\ data_updated
    /\ alerts_sent >= 1
    /\ disk = stored_data
    /\ \E t \in TickerSet, d \in Dates :
          /\ dispatched[t, d] >= 1
          /\ disk[t] # <<>>
          /\ disk[t][Len(disk[t])] = Event(t, d)

TypeOK ==
    /\ pc \in {"idle", "loop", "call", "returned"}
    /\ tix \in 1..(Len(Tickers) + 1)
    /\ alerts_sent \in 0..Len(Tickers)
    /\ data_updated \in BOOLEAN
    /\ last.kind \in {"none", "skipped", "baseline", "reconciled", "raised",
                      "args", "returned", "load_failed", "save_failed",
                      "crashed"}

====
